---- MODULE Spec2Model ----
(***************************************************************************)
(* A model of gmsc::Lexer (src/parser/lexer.cpp): the cursor, readchar,    *)
(* the ordered table basic_matches and the driver readtok.                 *)
(*                                                                         *)
(* A character is a one-element string; the characters that need an escape *)
(* in C++ carry a symbolic name (NUL, LF, TAB, DQ, SQ, BS).  A text is a   *)
(* sequence of characters.  Offsets count consumed characters, so `it` is  *)
(* the value of _it - begin(_source), and, while the sentinel has not been *)
(* seen, _last_char is source[it].                                         *)
(***************************************************************************)
EXTENDS Integers, Sequences, FiniteSets, TLC

VARIABLES source, it, last_char, line, col, current_parsed, last_token,
          last_value, thrown, tokstart, cstart, cend, stream

vars == <<source, it, last_char, line, col, current_parsed, last_token,
          last_value, thrown, tokstart, cstart, cend, stream>>

----------------------------------------------------------------------------
(* Characters *)

NUL == "NUL"
LF == "LF"
TAB == "TAB"
SPC == " "
DQ == "DQ"
SQ == "SQ"
BS == "BS"

Digits == {"0", "1", "2", "3", "4", "5", "6", "7", "8", "9"}

Letters ==
  {"a", "b", "c", "d", "e", "f", "g", "h", "i", "j", "k", "l", "m",
   "n", "o", "p", "q", "r", "s", "t", "u", "v", "w", "x", "y", "z",
   "A", "B", "C", "D", "E", "F", "G", "H", "I", "J", "K", "L", "M",
   "N", "O", "P", "Q", "R", "S", "T", "U", "V", "W", "X", "Y", "Z"}

is_whitespace(c) == (c = SPC) \/ (c = TAB)

\* is_line_end without the line feed.
is_line_end_SentinelOnly(c) == c = NUL

is_line_end(c) == (c = LF) \/ (c = NUL)

is_digit(c) == c \in Digits

is_alpha(c) == c \in Letters

is_numeral(c) == is_digit(c) \/ (c = ".")

is_alphanum(c) == is_digit(c) \/ is_alpha(c)

is_identifier_begin(c) == is_alpha(c) \/ (c = "_")

is_identifier(c) == is_alphanum(c) \/ (c = "_")

----------------------------------------------------------------------------
(* The pattern table, in the order of the source: lower index = higher     *)
(* priority.                                                               *)

basic_matches ==
  << [text |-> <<LF>>, type |-> "LineFeed"],
     [text |-> <<"!", "=">>, type |-> "NotEqual"],
     [text |-> <<"<", ">">>, type |-> "NotEqual"],
     [text |-> <<"<">>, type |-> "Inferior"],
     [text |-> <<"<", "=">>, type |-> "InferiorEqual"],
     [text |-> <<">">>, type |-> "Superior"],
     [text |-> <<">", "=">>, type |-> "SuperiorEqual"],
     [text |-> <<"{">>, type |-> "BraceLeft"],
     [text |-> <<"}">>, type |-> "BraceRight"],
     [text |-> <<"(">>, type |-> "ParenthesisLeft"],
     [text |-> <<")">>, type |-> "ParenthesisRight"],
     [text |-> <<".">>, type |-> "Dot"],
     [text |-> <<",">>, type |-> "Comma"],
     [text |-> <<";">>, type |-> "Semicolon"],
     [text |-> <<"&", "&">>, type |-> "LogicAnd"],
     [text |-> <<"|", "|">>, type |-> "LogicOr"],
     [text |-> <<"^", "^">>, type |-> "LogicXor"],
     [text |-> <<"[", "@">>, type |-> "AccessorLeftArrayRef"],
     [text |-> <<"[", "|">>, type |-> "AccessorLeftDSList"],
     [text |-> <<"[", "?">>, type |-> "AccessorLeftDSMap"],
     [text |-> <<"[", "#">>, type |-> "AccessorLeftDSGrid"],
     [text |-> <<"[">>, type |-> "AccessorLeftArrayValue"],
     [text |-> <<"]">>, type |-> "AccessorRight"],
     [text |-> <<"+", "+">>, type |-> "Increment"],
     [text |-> <<"-", "-">>, type |-> "Decrement"],
     [text |-> <<"+", "=">>, type |-> "AssignAdd"],
     [text |-> <<"-", "=">>, type |-> "AssignSubtract"],
     [text |-> <<"*", "=">>, type |-> "AssignMultiply"],
     [text |-> <<"/", "=">>, type |-> "AssignDivide"],
     [text |-> <<"&", "=">>, type |-> "AssignAnd"],
     [text |-> <<"|", "=">>, type |-> "AssignOr"],
     [text |-> <<"^", "=">>, type |-> "AssignXor"],
     [text |-> <<"<", "<", "=">>, type |-> "AssignShiftLeft"],
     [text |-> <<">", ">", "=">>, type |-> "AssignShiftRight"],
     [text |-> <<"=", "=">>, type |-> "DEqual"],
     [text |-> <<"=">>, type |-> "Equal"],
     [text |-> <<"+">>, type |-> "Plus"],
     [text |-> <<"-">>, type |-> "Minus"],
     [text |-> <<"*">>, type |-> "Multiply"],
     [text |-> <<"/">>, type |-> "Divide"],
     [text |-> <<"d", "i", "v">>, type |-> "EuclDivide"],
     [text |-> <<"m", "o", "d">>, type |-> "EuclModulo"],
     [text |-> <<"%">>, type |-> "EuclModulo"],
     [text |-> <<"&">>, type |-> "BitAnd"],
     [text |-> <<"|">>, type |-> "BitOr"],
     [text |-> <<"^">>, type |-> "BitXor"],
     [text |-> <<"i", "f">>, type |-> "If"],
     [text |-> <<"e", "l", "s", "e", " ", "i", "f">>, type |-> "ElseIf"],
     [text |-> <<"e", "l", "s", "e">>, type |-> "Else"],
     [text |-> <<"f", "o", "r">>, type |-> "For"],
     [text |-> <<"w", "h", "i", "l", "e">>, type |-> "While"],
     [text |-> <<"d", "o">>, type |-> "Do"],
     [text |-> <<"r", "e", "p", "e", "a", "t">>, type |-> "Repeat"],
     [text |-> <<"w", "i", "t", "h">>, type |-> "With"],
     [text |-> <<"v", "a", "r">>, type |-> "LocalVar"] >>

\* The width of the lookahead window peekstr.
PeekLen == 4

----------------------------------------------------------------------------
(* Exceptions (LexerException messages) *)

NoExc == "none"
EofCrash == "Reached EOF (lexer crash)"
UnterminatedComment == "Multi-line comment reaches EOF"
HexStub == "Hex colors are a stub"
UnknownToken == "Unknown token"

NoThrow == [msg |-> NoExc, line |-> 0, col |-> 0]

Token(type, l, c) == [type |-> type, line |-> l, col |-> c]

----------------------------------------------------------------------------
(* The members before the first call.  The member initialisers live in     *)
(* lexer.hpp; the values are the ones the 1-based positions and the        *)
(* whitespace loop of readtok need.  With _last_char a space the first     *)
(* call reads the first character whichever way _current_parsed starts, so *)
(* both values are explored.                                               *)

InitialLastChar == SPC
InitialLine == 1
InitialCol == 0
InitialCurrentParsed == BOOLEAN
InitialToken == Token("End", 0, 0)

----------------------------------------------------------------------------
(* The lexer as a record s: the members (it, last_char, line, col,         *)
(* current_parsed, last_token, last_value), the exception in flight        *)
(* (thrown), whether the call has returned and the token it returned       *)
(* (returned, result), and three observations of the                       *)
(* call: tokstart, the offset of the character at which tline/tcol were    *)
(* taken; cstart, the offset of the `/` of the last block comment entered; *)
(* cend, the offset of the `/` at which that comment's scan stopped.       *)

eof(s) == s.last_char = NUL

Throw(s, msg, l, c) ==
  [s EXCEPT !.thrown = [msg |-> msg, line |-> l, col |-> c]]

\* A return of the token without the assignment to _last_token.
Return_NoStore(s, tok) == [s EXCEPT !.result = tok, !.returned = TRUE]

\* return _last_token = tok;
Return(s, tok) ==
  [s EXCEPT !.last_token = tok, !.result = tok, !.returned = TRUE]

Failed(s) == s.thrown.msg # NoExc

\* readchar with the position advanced before the test for the end.
readchar_PastEnd(src, s) ==
  IF s.last_char = NUL
    THEN [s EXCEPT !.thrown = [msg |-> EofCrash, line |-> s.line, col |-> s.col]]
    ELSE IF s.it = Len(src)
      THEN [s EXCEPT !.last_char = NUL, !.it = @ + 1]
      ELSE LET c == src[s.it + 1] IN
           [s EXCEPT !.last_char = c,
                     !.it = @ + 1,
                     !.line = IF c = LF THEN @ + 1 ELSE @,
                     !.col = IF c = LF THEN 0 ELSE @ + 1]

\* readchar with the column left alone on a line feed.
readchar_NoColumnReset(src, s) ==
  IF s.last_char = NUL
    THEN [s EXCEPT !.thrown = [msg |-> EofCrash, line |-> s.line, col |-> s.col]]
    ELSE IF s.it = Len(src)
      THEN [s EXCEPT !.last_char = NUL]
      ELSE LET c == src[s.it + 1] IN
           [s EXCEPT !.last_char = c,
                     !.it = @ + 1,
                     !.line = IF c = LF THEN @ + 1 ELSE @,
                     !.col = @ + 1]

\* char Lexer::readchar(): the value returned is the new last_char.  At the
\* end of the text *_it reads the terminator std::string keeps after its
\* last character, the sentinel NUL; the texts explored hold no NUL.
readchar(src, s) ==
  IF eof(s)
    THEN Throw(s, EofCrash, s.line, s.col)
    ELSE IF s.it = Len(src)
      THEN [s EXCEPT !.last_char = NUL]
      ELSE LET c == src[s.it + 1] IN
           [s EXCEPT !.last_char = c,
                     !.it = @ + 1,
                     !.line = IF c = LF THEN @ + 1 ELSE @,
                     !.col = IF c = LF THEN 0 ELSE @ + 1]

\* while(is_whitespace(_last_char)) { readchar(); if (eof()) return End; }
\* The result is at the sentinel exactly when the loop returned End.
RECURSIVE SkipWhitespace(_, _)
SkipWhitespace(src, s) ==
  IF is_whitespace(s.last_char)
    THEN LET r == readchar(src, s) IN
         IF eof(r) THEN r ELSE SkipWhitespace(src, r)
    ELSE s

\* while(!is_line_end(readchar()));
RECURSIVE LineComment(_, _)
LineComment(src, s) ==
  LET r == readchar(src, s) IN
  IF Failed(r) \/ is_line_end(r.last_char) THEN r ELSE LineComment(src, r)

\* while (readchar() != '*') { if (eof()) throw ...; }
RECURSIVE BlockInner(_, _, _, _)
BlockInner(src, s, tline, tcol) ==
  LET r == readchar(src, s) IN
  IF Failed(r) THEN r
  ELSE IF r.last_char # "*"
    THEN IF eof(r)
           THEN Throw(r, UnterminatedComment, tline, tcol)
           ELSE BlockInner(src, r, tline, tcol)
    ELSE r

\* do { <BlockInner> } while (readchar() != '/');
RECURSIVE BlockComment(_, _, _, _)
BlockComment(src, s, tline, tcol) ==
  LET a == BlockInner(src, s, tline, tcol) IN
  IF Failed(a) THEN a
  ELSE LET b == readchar(src, a) IN
       IF Failed(b) THEN b
       ELSE IF b.last_char # "/"
         THEN BlockComment(src, b, tline, tcol)
         ELSE [b EXCEPT !.cend = b.it]

\* EscapeValue without the branch for backslash+n.
EscapeValue_NoLineFeed(c, delim) ==
  IF c = delim THEN <<delim>>
  ELSE IF c = "#" THEN <<"#">>
  ELSE <<BS, c>>

\* What the character after a backslash adds to _last_value.
EscapeValue(c, delim) ==
  IF c = delim THEN <<delim>>
  ELSE IF c = "n" THEN <<LF>>
  ELSE IF c = "#" THEN <<"#">>
  ELSE <<BS, c>>

\* What a character that follows no backslash adds to _last_value.
PlainValue(c) == IF c = "#" THEN <<LF>> ELSE <<c>>

\* while (readchar() != delim) { ... } return StringLiteral;
RECURSIVE StringLoop(_, _, _, _, _)
StringLoop(src, s, delim, tline, tcol) ==
  LET r == readchar(src, s) IN
  IF Failed(r) THEN r
  ELSE IF r.last_char = delim
    THEN Return(r, Token("StringLiteral", tline, tcol))
  ELSE IF r.last_char = BS
    THEN LET e == readchar(src, r) IN
         IF Failed(e) THEN e
         ELSE IF eof(e) THEN Return(e, Token("End", tline, tcol))
         ELSE StringLoop(src,
                [e EXCEPT !.last_value = @ \o EscapeValue(e.last_char, delim)],
                delim, tline, tcol)
  ELSE StringLoop(src,
         [r EXCEPT !.last_value = @ \o PlainValue(r.last_char)],
         delim, tline, tcol)

\* _last_value.clear(); char delim = _last_char; <StringLoop>
StringLiteral(src, s, tline, tcol) ==
  StringLoop(src, [s EXCEPT !.last_value = <<>>], s.last_char, tline, tcol)

Min(a, b) == IF a < b THEN a ELSE b

\* _source.substr(_it - begin(_source) - 1, 4)
peekstr(src, s) == SubSeq(src, s.it, Min(s.it + PeekLen - 1, Len(src)))

\* peekstr.substr(0, first.size()) == first
Matches(peek, text) == SubSeq(peek, 1, Min(Len(text), Len(peek))) = text

\* The index of the first entry of basic_matches that matches, 0 if none.
FirstMatch(peek) ==
  LET hits == {i \in 1..Len(basic_matches) : Matches(peek, basic_matches[i].text)}
  IN IF hits = {} THEN 0 ELSE CHOOSE i \in hits : \A j \in hits : i <= j

\* for (j = 1; j < first.size(); ++j) readchar();
RECURSIVE ReadChars(_, _, _)
ReadChars(src, s, n) ==
  IF n = 0 \/ Failed(s) THEN s ELSE ReadChars(src, readchar(src, s), n - 1)

\* do { _last_value += _last_char; } while (is_numeral(readchar()));
RECURSIVE NumeralLoop(_, _)
NumeralLoop(src, s) ==
  LET r == readchar(src, [s EXCEPT !.last_value = Append(@, s.last_char)]) IN
  IF Failed(r) \/ ~is_numeral(r.last_char) THEN r ELSE NumeralLoop(src, r)

\* do { _last_value += _last_char; } while (is_identifier(readchar()));
RECURSIVE IdentifierLoop(_, _)
IdentifierLoop(src, s) ==
  LET r == readchar(src, [s EXCEPT !.last_value = Append(@, s.last_char)]) IN
  IF Failed(r) \/ ~is_identifier(r.last_char) THEN r ELSE IdentifierLoop(src, r)

\* ValueTokens with _current_parsed left alone after a real.
ValueTokens_RealKeepsParsed(src, s0, tline, tcol) ==
  LET s == [s0 EXCEPT !.last_value = <<>>] IN
  IF is_numeral(s.last_char)
    THEN LET r == NumeralLoop(src, s) IN
         IF Failed(r) THEN r
         ELSE Return(r, Token("RealLiteral", tline, tcol))
  ELSE IF is_identifier_begin(s.last_char)
    THEN LET r == IdentifierLoop(src, s) IN
         IF Failed(r) THEN r
         ELSE Return([r EXCEPT !.current_parsed = FALSE],
                     Token("Identifier", tline, tcol))
  ELSE Throw(s, UnknownToken, tline, tcol)

\* ValueTokens with _current_parsed left alone after an identifier.
ValueTokens_IdentifierKeepsParsed(src, s0, tline, tcol) ==
  LET s == [s0 EXCEPT !.last_value = <<>>] IN
  IF is_numeral(s.last_char)
    THEN LET r == NumeralLoop(src, s) IN
         IF Failed(r) THEN r
         ELSE Return([r EXCEPT !.current_parsed = FALSE],
                     Token("RealLiteral", tline, tcol))
  ELSE IF is_identifier_begin(s.last_char)
    THEN LET r == IdentifierLoop(src, s) IN
         IF Failed(r) THEN r
         ELSE Return(r, Token("Identifier", tline, tcol))
  ELSE Throw(s, UnknownToken, tline, tcol)

\* Lines 258-284: the scanners of the tokens that carry a value.
ValueTokens(src, s0, tline, tcol) ==
  LET s == [s0 EXCEPT !.last_value = <<>>] IN
  IF is_numeral(s.last_char)
    THEN LET r == NumeralLoop(src, s) IN
         IF Failed(r) THEN r
         ELSE Return([r EXCEPT !.current_parsed = FALSE],
                     Token("RealLiteral", tline, tcol))
  ELSE IF is_identifier_begin(s.last_char)
    THEN LET r == IdentifierLoop(src, s) IN
         IF Failed(r) THEN r
         ELSE Return([r EXCEPT !.current_parsed = FALSE],
                     Token("Identifier", tline, tcol))
  ELSE Throw(s, UnknownToken, tline, tcol)

\* FixedPatterns with the matched character handed to the next call again.
FixedPatterns_Unparsed(src, s, tline, tcol) ==
  LET i == FirstMatch(peekstr(src, s)) IN
  IF i # 0
    THEN LET r == ReadChars(src, s, Len(basic_matches[i].text) - 1) IN
         IF Failed(r) THEN r
         ELSE Return([r EXCEPT !.current_parsed = FALSE],
                     Token(basic_matches[i].type, tline, tcol))
    ELSE ValueTokens(src, s, tline, tcol)

\* Lines 246-256: the fixed patterns, then the scanners below them.
FixedPatterns(src, s, tline, tcol) ==
  LET i == FirstMatch(peekstr(src, s)) IN
  IF i # 0
    THEN LET r == ReadChars(src, s, Len(basic_matches[i].text) - 1) IN
         IF Failed(r) THEN r
         ELSE Return(r, Token(basic_matches[i].type, tline, tcol))
    ELSE ValueTokens(src, s, tline, tcol)

\* Lines 207-244: string literals and the `$` stub.
Literals(src, s, tline, tcol) ==
  IF s.last_char = DQ \/ s.last_char = SQ
    THEN StringLiteral(src, s, tline, tcol)
  ELSE IF s.last_char = "$"
    THEN Throw(s, HexStub, tline, tcol)
  ELSE FixedPatterns(src, s, tline, tcol)

RECURSIVE readtok(_, _)

\* Lines 181-205: tline/tcol and the comments.
Dispatch(src, s0) ==
  LET s == [s0 EXCEPT !.tokstart = s0.it]
      tline == s.line
      tcol == s.col
  IN
  IF s.last_char = "/"
    THEN LET r == readchar(src, s) IN
         IF r.last_char = "/"
           THEN LET q == LineComment(src, r) IN
                IF Failed(q) THEN q
                ELSE IF eof(q) THEN Return(q, Token("End", tline, tcol))
                ELSE Literals(src, q, tline, tcol)
         ELSE IF r.last_char = "*"
           THEN LET q == BlockComment(src,
                           [r EXCEPT !.cstart = s.it, !.cend = 0], tline, tcol)
                IN IF Failed(q) THEN q ELSE readtok(src, q)
         ELSE Literals(src, [r EXCEPT !.current_parsed = FALSE], tline, tcol)
    ELSE Literals(src, s, tline, tcol)

\* Lines 164-179: skip the character already parsed, then spaces and tabs.
Scan(src, s) ==
  LET EndHere(r) == Return(r, Token("End", r.line, r.col))
      Skip(r) == LET w == SkipWhitespace(src, r) IN
                 IF eof(w) THEN EndHere(w) ELSE Dispatch(src, w)
  IN
  IF s.current_parsed
    THEN LET r == readchar(src, s) IN
         IF Failed(r) THEN r
         ELSE IF eof(r) THEN EndHere(r)
         ELSE Skip(r)
    ELSE Skip([s EXCEPT !.current_parsed = TRUE])

\* readtok without the end-of-input test of its first two lines.
readtok_NoEofTest(src, s) == Scan(src, s)

\* Token Lexer::readtok()
readtok(src, s) ==
  IF eof(s)
    THEN Return(s, Token("End", s.line, s.col))
    ELSE Scan(src, s)

----------------------------------------------------------------------------
(* The source texts explored.  Four families: a table pattern between a    *)
(* head and a tail; texts over the characters of string literals; texts    *)
(* over the characters of comments; texts over the characters of numbers,  *)
(* identifiers and the `$` stub.                                           *)

MaxTail == 2
MaxString == 5
MaxComment == 5
MaxWord == 4
MaxEndCalls == 2

Texts(alphabet, n) == UNION {[1..k -> alphabet] : k \in 0..n}

Patterns == {basic_matches[i].text : i \in DOMAIN basic_matches}

Heads == {<<>>, <<SPC>>, <<"7">>}

TailAlphabet == {"x", SPC, "=", "7", ";", LF}

StringAlphabet == {DQ, SQ, BS, "n", "#", LF}

CommentAlphabet == {"/", "*", "a", LF, SPC}

WordAlphabet == {"7", ".", "_", "f", "$", "/", SPC}

PatternSources ==
  {h \o p \o t : h \in Heads, p \in Patterns, t \in Texts(TailAlphabet, MaxTail)}

Sources ==
  PatternSources \cup Texts(StringAlphabet, MaxString)
                 \cup Texts(CommentAlphabet, MaxComment)
                 \cup Texts(WordAlphabet, MaxWord)

----------------------------------------------------------------------------
(* The state machine: the parser constructs a lexer on a source and pulls  *)
(* tokens from it until an exception ends the session or it has been       *)
(* handed MaxEndCalls End tokens.                                          *)

\* The number of End tokens handed out so far.
EndCount == Cardinality({k \in DOMAIN stream : stream[k].type = "End"})

\* The lexer at the start of a call.
Current ==
  [it |-> it, last_char |-> last_char, line |-> line, col |-> col,
   current_parsed |-> current_parsed, last_token |-> last_token,
   last_value |-> last_value, thrown |-> NoThrow, returned |-> FALSE,
   result |-> last_token,
   tokstart |-> 0, cstart |-> 0, cend |-> 0]

\* Lexer::Lexer(const std::string& source)
Init ==
  /\ source \in Sources
  /\ it = 0
  /\ last_char = InitialLastChar
  /\ line = InitialLine
  /\ col = InitialCol
  /\ current_parsed \in InitialCurrentParsed
  /\ last_token = InitialToken
  /\ last_value = <<>>
  /\ thrown = NoThrow
  /\ tokstart = 0
  /\ cstart = 0
  /\ cend = 0
  /\ stream = <<>>

\* One call of readtok by the parser (r is the lexer when the call ends).
Readtok ==
  /\ thrown.msg = NoExc
  /\ EndCount < MaxEndCalls
  /\ \E r \in {readtok(source, Current)} :
       /\ it' = r.it
       /\ last_char' = r.last_char
       /\ line' = r.line
       /\ col' = r.col
       /\ current_parsed' = r.current_parsed
       /\ last_token' = r.last_token
       /\ last_value' = r.last_value
       /\ thrown' = r.thrown
       /\ tokstart' = r.tokstart
       /\ cstart' = r.cstart
       /\ cend' = r.cend
       /\ stream' = IF r.returned
                      THEN Append(stream,
                             [type |-> r.result.type,
                              line |-> r.result.line,
                              col |-> r.result.col,
                              start |-> r.tokstart,
                              value |-> r.last_value])
                      ELSE stream
  /\ UNCHANGED source

Next == Readtok

\* The accessors of the lexer.
LastTokenAccessor == last_token

LastValueAccessor == last_value

LineAccessor == last_token.line

ColumnAccessor == last_token.col

SourceIterator == it

Spec == Init /\ [][Next]_vars

----------------------------------------------------------------------------
(* What the properties below read off a state.                             *)

\* No exception ended the last call.
NoError == thrown.msg = NoExc

\* The text starts with `text` at offset i.
StartsWith(src, i, text) ==
  /\ i >= 1
  /\ i + Len(text) - 1 <= Len(src)
  /\ SubSeq(src, i, i + Len(text) - 1) = text

\* The kind the table gives a pattern text.
KindOf(text) ==
  basic_matches[CHOOSE i \in DOMAIN basic_matches :
                  basic_matches[i].text = text].type

\* The line and the 1-based column of the character at offset i.
LineOf(src, i) == 1 + Cardinality({k \in 1..(i - 1) : src[k] = LF})

ColOf(src, i) ==
  LET feeds == {k \in 1..(i - 1) : src[k] = LF}
  IN IF feeds = {} THEN i
     ELSE i - (CHOOSE k \in feeds : \A j \in feeds : j <= k)

\* The text between offset i and the end of input, or a character that is
\* no identifier character, is the maximal identifier run from i.
IdentifierRun(src, i) ==
  LET last == CHOOSE j \in i..Len(src) :
                /\ \A k \in i..j : is_identifier(src[k])
                /\ (j = Len(src) \/ ~is_identifier(src[j + 1]))
  IN SubSeq(src, i, last)

\* The offset of the first d at or after i that no backslash escapes, 0 if
\* end-of-input comes first.
RECURSIVE ClosingDelimiter(_, _, _)
ClosingDelimiter(src, d, i) ==
  IF i > Len(src) THEN 0
  ELSE IF src[i] = d THEN i
  ELSE IF src[i] = BS
    THEN IF i + 1 > Len(src) THEN 0 ELSE ClosingDelimiter(src, d, i + 2)
  ELSE ClosingDelimiter(src, d, i + 1)

\* The value of the characters between two delimiters d, left to right.
RECURSIVE Decoded(_, _)
Decoded(content, d) ==
  IF content = <<>> THEN <<>>
  ELSE IF content[1] = BS /\ Len(content) >= 2
    THEN (CASE content[2] = d -> <<d>>
            [] content[2] # d /\ content[2] = "n" -> <<LF>>
            [] content[2] # d /\ content[2] = "#" -> <<"#">>
            [] OTHER -> <<BS, content[2]>>)
         \o Decoded(SubSeq(content, 3, Len(content)), d)
  ELSE (IF content[1] = "#" THEN <<LF>> ELSE <<content[1]>>)
       \o Decoded(Tail(content), d)

\* The offsets of the `*` of the `*/` sequences that start after the opener
\* `/*` at offset c.
Closers(src, c) ==
  {j \in (c + 2)..(Len(src) - 1) : src[j] = "*" /\ src[j + 1] = "/"}

FirstCloser(src, c) ==
  CHOOSE j \in Closers(src, c) : \A k \in Closers(src, c) : j <= k

----------------------------------------------------------------------------
(* C1..C10 *)

CompoundOperators ==
  { <<"<", "=">>, <<">", "=">>, <<"=", "=">>, <<"!", "=">>, <<"<", ">">>,
    <<"&", "&">>, <<"|", "|">>, <<"^", "^">>, <<"+", "+">>, <<"-", "-">>,
    <<"+", "=">>, <<"-", "=">>, <<"*", "=">>, <<"/", "=">>, <<"&", "=">>,
    <<"|", "=">>, <<"^", "=">>, <<"<", "<", "=">>, <<">", ">", "=">> }

\* C1: when the text at the start of a token is a compound operator, the
\* call returns one token of that operator's compound kind.
C1_CompoundOperatorIsOneToken ==
  \A op \in CompoundOperators :
    (tokstart > 0 /\ StartsWith(source, tokstart, op))
      => (NoError /\ last_token.type = KindOf(op))

Keywords ==
  { <<"i", "f">>, <<"e", "l", "s", "e">>, <<"f", "o", "r">>, <<"d", "o">>,
    <<"w", "i", "t", "h">>, <<"v", "a", "r">>, <<"d", "i", "v">>,
    <<"m", "o", "d">>, <<"w", "h", "i", "l", "e">>,
    <<"r", "e", "p", "e", "a", "t">> }

\* C2: a keyword text followed at once by an identifier character is no
\* keyword: the call returns one Identifier whose value is the whole run.
C2_KeywordNeedsWordBoundary ==
  \A kw \in Keywords :
    ( /\ tokstart > 0
      /\ StartsWith(source, tokstart, kw)
      /\ tokstart + Len(kw) <= Len(source)
      /\ is_identifier(source[tokstart + Len(kw)]) )
      => ( /\ NoError
           /\ last_token.type = "Identifier"
           /\ last_value = IdentifierRun(source, tokstart) )

LastIsEnd == stream # <<>> /\ stream[Len(stream)].type = "End"

\* C3: once a call has returned End, the next call returns End too and
\* raises nothing.
C3_EndIsTerminal ==
  [][LastIsEnd => ( /\ thrown'.msg = NoExc
                    /\ Len(stream') = Len(stream) + 1
                    /\ stream'[Len(stream')].type = "End"
                    /\ it' = it )]_vars

\* A call made after an End token returned End, on a text that held tokens.
C3_Witness ==
  /\ NoError
  /\ Len(stream) >= 3
  /\ stream[Len(stream)].type = "End"
  /\ stream[Len(stream) - 1].type = "End"
  /\ stream[1].type # "End"

\* C4: readchar is never called after the sentinel has been seen, so no
\* call raises 'Reached EOF (lexer crash)'.
C4_NoEofCrash == thrown.msg # EofCrash

\* C5: a block comment with no closing sequence before end-of-input makes
\* the call fail with the unterminated-comment error at the comment's start.
C5_UnterminatedCommentError ==
  (cstart > 0 /\ Closers(source, cstart) = {})
    => thrown = [msg |-> UnterminatedComment,
                 line |-> LineOf(source, cstart),
                 col |-> ColOf(source, cstart)]

Quotes == {DQ, SQ}

\* The call scanned a string literal opened at tokstart.
StringOpened == tokstart > 0 /\ source[tokstart] \in Quotes

\* C6: a string literal that end-of-input cuts short makes the call return
\* an End token at the string's start, with no error.
C6_UnterminatedStringIsEnd ==
  ( /\ StringOpened
    /\ ClosingDelimiter(source, source[tokstart], tokstart + 1) = 0 )
    => ( /\ NoError
         /\ last_token = Token("End", LineOf(source, tokstart),
                                      ColOf(source, tokstart)) )

\* C7: a terminated string literal is one StringLiteral token whose value is
\* the decoding of the characters between its delimiters.
C7_StringValueIsDecoded ==
  StringOpened =>
    LET d == source[tokstart]
        e == ClosingDelimiter(source, d, tokstart + 1)
    IN e > 0 =>
         ( /\ NoError
           /\ last_token.type = "StringLiteral"
           /\ it = e
           /\ last_value = Decoded(SubSeq(source, tokstart + 1, e - 1), d) )

\* A single-quoted literal made of backslash+n and a raw double quote was
\* returned with the value line feed, double quote.
C7_Witness ==
  /\ NoError
  /\ StringOpened
  /\ source[tokstart] = SQ
  /\ source[tokstart + 1] = BS
  /\ it = tokstart + 4
  /\ last_token.type = "StringLiteral"
  /\ last_value = <<LF, DQ>>

\* C8: a block comment ends at the first `*/` that starts after its opener,
\* and the token returned starts after that `*/`.
C8_CommentEndsAtFirstCloser ==
  (cstart > 0 /\ Closers(source, cstart) # {})
    => ( /\ cend = FirstCloser(source, cstart) + 1
         /\ (tokstart = cstart \/ tokstart > cend) )

\* C9: a `/` followed by a character other than `/` and `*` is one Divide
\* token at the `/`, and the character after it starts the next token.
C9_DivideThenNextCharacter ==
  /\ ( /\ tokstart > 0
       /\ tokstart < Len(source)
       /\ source[tokstart] = "/"
       /\ source[tokstart + 1] \notin {"/", "*"} )
       => ( /\ NoError
            /\ last_token = Token("Divide", LineOf(source, tokstart),
                                            ColOf(source, tokstart)) )
  /\ (NoError /\ Len(stream) >= 2) =>
       LET p == stream[Len(stream) - 1].start IN
         ( /\ p > 0
           /\ p < Len(source)
           /\ source[p] = "/"
           /\ source[p + 1] \notin {"/", "*", SPC, TAB} )
           => stream[Len(stream)].start = p + 1

LongKeywords ==
  { <<"w", "h", "i", "l", "e">>, <<"r", "e", "p", "e", "a", "t">>,
    <<"e", "l", "s", "e", " ", "i", "f">> }

\* C10: `while`, `repeat` and `else if` at the start of a token, followed by
\* no identifier character, give one While, Repeat or ElseIf token.
C10_LongKeywordsMatch ==
  \A kw \in LongKeywords :
    ( /\ tokstart > 0
      /\ StartsWith(source, tokstart, kw)
      /\ ( \/ tokstart + Len(kw) > Len(source)
           \/ ~is_identifier(source[tokstart + Len(kw)]) ) )
      => (NoError /\ last_token.type = KindOf(kw))

----------------------------------------------------------------------------
(* C11..C20 *)

\* A token was returned by the last call.
Returned == NoError /\ stream # <<>>

LastType == stream[Len(stream)].type

\* The call took tline/tcol at a `/` that opens no comment and is not the
\* last character of the text.
AfterPlainSlash ==
  /\ tokstart > 0
  /\ tokstart < Len(source)
  /\ source[tokstart] = "/"
  /\ source[tokstart + 1] \notin {"/", "*"}

\* The offset of the character the scanners of the call examined: the one at
\* which tline/tcol were taken, or the one after a `/` that opens no comment;
\* 0 when there is none or a comment came first.
CurrentCharAt ==
  IF tokstart = 0 THEN 0
  ELSE IF source[tokstart] # "/" THEN tokstart
  ELSE IF AfterPlainSlash THEN tokstart + 1
  ELSE 0

\* The offset of the first character of the lexeme of the token returned:
\* the line feed that ends a line comment, else the character examined.
LexemeStart ==
  IF /\ tokstart < Len(source)
     /\ source[tokstart] = "/"
     /\ source[tokstart + 1] = "/"
    THEN it
  ELSE IF CurrentCharAt # 0 THEN CurrentCharAt
  ELSE tokstart

\* C11: every token returned (End apart) carries the line and the 1-based
\* column of the first character of its lexeme.
C11_TokenCarriesLexemePosition ==
  (Returned /\ tokstart > 0 /\ LastType # "End")
    => ( /\ last_token.line = LineOf(source, LexemeStart)
         /\ last_token.col = ColOf(source, LexemeStart) )

\* The line feeds among the characters consumed so far.
FeedsConsumed == {k \in 1..it : source[k] = LF}

\* C12: the counters reflect the characters consumed: one line per line feed
\* consumed, and as many columns as characters consumed since the last one;
\* reading at end-of-input moves neither them nor the position.
C12_CountersReflectConsumed ==
  /\ it <= Len(source)
  /\ line = InitialLine + Cardinality(FeedsConsumed)
  /\ col = IF FeedsConsumed = {} THEN InitialCol + it
           ELSE it - (CHOOSE k \in FeedsConsumed : \A j \in FeedsConsumed : j <= k)

\* The sentinel was read after line feeds and, on the last line, other
\* characters had been consumed.
C12_Witness ==
  /\ last_char = NUL
  /\ it = Len(source)
  /\ line >= 3
  /\ col >= 2

\* C13: when the character a token starts with is `$`, the call fails with
\* 'Hex colors are a stub' at the line and column of that `$`.
C13_HexStubAtDollar ==
  (CurrentCharAt # 0 /\ source[CurrentCharAt] = "$")
    => thrown = [msg |-> HexStub,
                 line |-> LineOf(source, CurrentCharAt),
                 col |-> ColOf(source, CurrentCharAt)]

\* The last offset of the maximal run of digits and dots that starts at i.
NumeralRunEnd(src, i) ==
  CHOOSE j \in i..Len(src) :
    /\ \A k \in i..j : src[k] \in Digits \cup {"."}
    /\ (j = Len(src) \/ src[j + 1] \notin Digits \cup {"."})

\* The cursor stands on the character after offset e, which the next call
\* examines first: it is in _last_char and is not marked as parsed.
TerminatorKept(e) ==
  /\ ~current_parsed
  /\ IF e < Len(source)
       THEN it = e + 1 /\ last_char = source[e + 1]
       ELSE it = Len(source) /\ last_char = NUL

\* The offset of the character examined by the call that returned stream[k].
ExaminedBy(k) ==
  LET s == stream[k].start IN IF source[s] = "/" THEN s + 1 ELSE s

\* The token before the last one is of the given kind, and the character q
\* after its value is neither skipped as whitespace nor opens a block comment:
\* then the last call took its position at q.
NextStartsAfter(kind) ==
  (Returned /\ Len(stream) >= 2 /\ stream[Len(stream) - 1].type = kind) =>
    LET k == Len(stream) - 1
        q == ExaminedBy(k) + Len(stream[k].value)
    IN ( /\ q <= Len(source)
         /\ ~(source[q] \in {SPC, TAB})
         /\ ~(q < Len(source) /\ source[q] = "/" /\ source[q + 1] = "*") )
         => stream[Len(stream)].start = q

\* C14: a token that starts with a digit is one RealLiteral whose value is the
\* maximal run of digits and dots; the character that ends the run is kept and
\* is the first one the next call examines.
C14_RealLiteralIsMaximalRun ==
  /\ (CurrentCharAt # 0 /\ source[CurrentCharAt] \in Digits) =>
       LET e == NumeralRunEnd(source, CurrentCharAt) IN
         /\ NoError
         /\ last_token.type = "RealLiteral"
         /\ last_value = SubSeq(source, CurrentCharAt, e)
         /\ TerminatorKept(e)
  /\ NextStartsAfter("RealLiteral")

\* `7.7` was returned as one RealLiteral and the next call took the character
\* after it as the start of its token.
C14_Witness ==
  /\ Returned
  /\ Len(stream) = 2
  /\ stream[1].type = "RealLiteral"
  /\ stream[1].value = <<"7", ".", "7">>
  /\ stream[2].start = 4
  /\ stream[2].type = "Identifier"

\* No entry of the table equals a prefix of the lookahead at offset i.
NoPatternAt(src, i) ==
  \A k \in DOMAIN basic_matches :
    ~( /\ Len(basic_matches[k].text) <= PeekLen
       /\ StartsWith(src, i, basic_matches[k].text) )

\* C15: where the identifier scanner is reached, the call returns one
\* Identifier whose value is the maximal identifier run; the character that
\* ends the run is kept and is the first one the next call examines.
C15_IdentifierIsMaximalRun ==
  /\ ( /\ CurrentCharAt # 0
       /\ is_identifier_begin(source[CurrentCharAt])
       /\ NoPatternAt(source, CurrentCharAt) ) =>
       LET run == IdentifierRun(source, CurrentCharAt) IN
         /\ NoError
         /\ last_token.type = "Identifier"
         /\ last_value = run
         /\ TerminatorKept(CurrentCharAt + Len(run) - 1)
  /\ NextStartsAfter("Identifier")

\* `_f7` was returned as one Identifier and the next call took the character
\* after it as the start of its token.
C15_Witness ==
  /\ Returned
  /\ Len(stream) = 2
  /\ stream[1].type = "Identifier"
  /\ stream[1].value = <<"_", "f", "7">>
  /\ stream[2].start = 4

\* What a call that returns a token other than End moves forward: the
\* position, or the sentinel is now seen, or the character in _last_char is
\* now marked as parsed.
Advances ==
  \/ it' > it
  \/ (last_char # NUL /\ last_char' = NUL)
  \/ (~current_parsed /\ current_parsed')

ReturnsToken ==
  /\ thrown'.msg = NoExc
  /\ Len(stream') = Len(stream) + 1
  /\ stream'[Len(stream')].type # "End"

\* C16: no call returns a token other than End without moving forward, and a
\* text of n characters yields at most n such tokens: after them every call
\* returns End or raises an error.
C16_CallsReachEnd ==
  [][ReturnsToken => (Advances /\ Len(stream') <= Len(source))]_vars

\* The calls reached End after as many tokens as the text has characters,
\* one of them returned by a call that began at the character that ended an
\* identifier.
C16_Witness ==
  /\ Returned
  /\ LastIsEnd
  /\ Len(stream) = Len(source) + 1
  /\ \E k \in 1..(Len(stream) - 2) :
        /\ stream[k].type = "Identifier"
        /\ stream[k + 1].type = "Semicolon"

\* The indices of the table entries whose text equals a prefix of the
\* lookahead of at most PeekLen characters at offset i.
EntriesAt(src, i) ==
  LET window == SubSeq(src, i, Min(i + PeekLen - 1, Len(src)))
  IN {k \in DOMAIN basic_matches : StartsWith(window, 1, basic_matches[k].text)}

\* C17: the matcher returns the kind of the first table entry that equals a
\* prefix of the lookahead at the current character and consumes the rest of
\* that pattern, so that the next call starts right after it.
C17_FirstEntryThenNextCharacter ==
  ( /\ CurrentCharAt # 0
    /\ source[CurrentCharAt] \notin Quotes \cup {"$"}
    /\ EntriesAt(source, CurrentCharAt) # {} ) =>
    LET hits == EntriesAt(source, CurrentCharAt)
        k == CHOOSE i \in hits : \A j \in hits : i <= j
    IN /\ NoError
       /\ last_token.type = basic_matches[k].type
       /\ it = CurrentCharAt + Len(basic_matches[k].text) - 1
       /\ current_parsed

\* The offsets of the line feeds after the `//` at offset s.
FeedsAfter(s) == {k \in (s + 2)..Len(source) : source[k] = LF}

FirstFeedAfter(s) == CHOOSE k \in FeedsAfter(s) : \A j \in FeedsAfter(s) : k <= j

\* `//` stands at offset s.
LineCommentAt(s) ==
  /\ s > 0
  /\ s < Len(source)
  /\ source[s] = "/"
  /\ source[s + 1] = "/"

\* C18: a line comment is consumed up to end-of-input, and the call returns
\* End, or up to and including the next line feed, and the call returns one
\* LineFeed token for it; the next call starts on the following line.
C18_LineCommentEndsAtLineFeed ==
  /\ LineCommentAt(tokstart) =>
       /\ Returned
       /\ stream[Len(stream)].start = tokstart
       /\ IF FeedsAfter(tokstart) = {}
            THEN LastType = "End" /\ it = Len(source) /\ last_char = NUL
            ELSE /\ LastType = "LineFeed"
                 /\ it = FirstFeedAfter(tokstart)
                 /\ current_parsed
  /\ (Returned /\ Len(stream) >= 2) =>
       LET s == stream[Len(stream) - 1].start IN
         (LineCommentAt(s) /\ FeedsAfter(s) # {}) =>
           LET q == FirstFeedAfter(s) + 1 IN
             ( /\ q <= Len(source)
               /\ ~(source[q] \in {SPC, TAB})
               /\ ~(q < Len(source) /\ source[q] = "/" /\ source[q + 1] = "*") )
               => stream[Len(stream)].start = q

\* A line comment holding text was skipped, its line feed returned as one
\* LineFeed token, and the next call returned the identifier of the next line.
C18_Witness ==
  /\ Returned
  /\ Len(stream) = 2
  /\ source = <<"/", "/", "a", LF, "a">>
  /\ stream[1].type = "LineFeed"
  /\ stream[2].type = "Identifier"
  /\ stream[2].start = 5

\* C19: over any calls the position never decreases and never passes the
\* end of the text, and the text is never modified.
C19_PositionMonotoneInText ==
  [][ /\ SourceIterator' >= SourceIterator
      /\ SourceIterator' <= Len(source)
      /\ source' = source ]_vars

\* Several calls moved the position, the last one to the end of the text,
\* where the sentinel was read.
C19_Witness ==
  /\ Len(stream) >= 3
  /\ Len(source) >= 3
  /\ SourceIterator = Len(source)
  /\ last_char = NUL
  /\ \E k \in 1..(Len(stream) - 1) : stream[k].start < stream[k + 1].start

\* The kinds of the table.
FixedKinds == {basic_matches[k].type : k \in DOMAIN basic_matches}

\* C20: after a call that returns, last_token() is the token returned and
\* line()/column() are its line and column; a call that returns a token of
\* the table leaves last_value() as it was.
C20_AccessorsFollowReturn ==
  [][ (thrown'.msg = NoExc /\ Len(stream') = Len(stream) + 1) =>
        LET tk == stream'[Len(stream')] IN
          /\ LastTokenAccessor' = Token(tk.type, tk.line, tk.col)
          /\ LineAccessor' = tk.line
          /\ ColumnAccessor' = tk.col
          /\ (tk.type \in FixedKinds => LastValueAccessor' = LastValueAccessor)
    ]_vars

\* A token of the table was returned after an identifier, whose text is still
\* the value.
C20_Witness ==
  /\ Returned
  /\ Len(stream) = 2
  /\ stream[1].type = "Identifier"
  /\ LastType = "Semicolon"
  /\ LastTokenAccessor.type = "Semicolon"
  /\ LastValueAccessor = stream[1].value
  /\ LastValueAccessor # <<>>

====
